---- MODULE Spec2Model ----
(***************************************************************************)
(* Model of watchdog.py: an observer thread that appends one record per    *)
(* non-directory file event to the live log, and the main thread that      *)
(* loops compress_log(); time.sleep(COMPRESS_INTERVAL); delete_old_logs()  *)
(* under a try/except, until KeyboardInterrupt.                            *)
(*                                                                         *)
(* The log directory /var/log is the function files: name -> entry.  A     *)
(* name is a record [pre, base, ts]: pre is text in front of the base      *)
(* name, ts > 0 stands for the suffix "_<YYYYMMDD_HHMMSS>.gz" of the       *)
(* second ts.  An entry is [isfile, mtime, content].                       *)
(***************************************************************************)
EXTENDS Integers, Sequences, FiniteSets, TLC

VARIABLES
    clock,       \* wall clock in seconds (time.time(), datetime.now())
    files,       \* the log directory: name -> [isfile, mtime, content]
    nextId,      \* identity of the next line written through logging
    obsPc,       \* observer thread: "wait" | "dispatch" | "stopped"
    obsEvent,    \* the event being dispatched
    obsStop,     \* set by observer.stop()
    nEvents,     \* number of events delivered so far
    mainPc,      \* position of the main thread
    timestamp,   \* compress_log's local: the second of this rotation
    rotState,    \* progress of the latest compress_log call: "none" |
                 \* "begun" | "created" | "archived" | "truncated" | "done" |
                 \* "failed"
    cycles,      \* number of compress_log calls so far
    prevAttempt, \* clock at the call before the latest one, -1 if none
    prevResult,  \* rotState as that earlier call left it
    namesBefore, \* names in the directory when the latest call began
    logAtBegin,  \* the live log's lines when the latest call began
    lastSweepCycle, \* value of cycles when delete_old_logs last ran, 0 if never
    sigAt,       \* where main was when KeyboardInterrupt was raised, or "none"
    exists,      \* the candidate roots present on disk (os.path.exists)
    paths,       \* main's list from get_existing_paths()
    watched,     \* the roots scheduled on the observer so far
    failedRoot   \* the root whose subscription raised, "" if none

vars == <<clock, files, nextId, obsPc, obsEvent, obsStop, nEvents, mainPc,
          timestamp, rotState, cycles, prevAttempt, prevResult, namesBefore,
          logAtBegin, lastSweepCycle, sigAt, exists, paths, watched,
          failedRoot>>

obsVars == <<obsPc, obsEvent, obsStop, nEvents>>
rotVars == <<timestamp, rotState, cycles, prevAttempt, prevResult, namesBefore,
            logAtBegin>>
startVars == <<exists, paths, watched, failedRoot>>

----------------------------------------------------------------------------
(* Bounds *)
MaxEvents == 1
MaxCycles == 2
MaxHandlerEvents == 3
StartClock == 700000

\* Seconds a step may take beyond its nominal duration.
Jitter == {0, 1}

(* Program constants *)
COMPRESS_INTERVAL == 3600
LOG_RETENTION_DAYS == 7
SecondsPerDay == 86400

RetentionWindow == LOG_RETENTION_DAYS * SecondsPerDay

LOG_BASENAME == "file_changes.log"

LOG_FILE == [pre |-> "", base |-> LOG_BASENAME, ts |-> 0]

\* f"{LOG_FILE}_{timestamp}.gz"
compressed_log(t) == [pre |-> "", base |-> LOG_BASENAME, ts |-> t]

\* filename.startswith("file_changes.log")
StartsWithLogName(n) == n.pre = "" /\ n.base = LOG_BASENAME

Kinds == {"Modified", "Created", "Deleted", "Moved"}

NoEvent == [kind |-> "none", src_path |-> "", dest_path |-> "", is_directory |-> FALSE]

Events ==
    { [kind |-> k, src_path |-> "/etc/a",
       dest_path |-> (IF k = "Moved" THEN "/etc/b" ELSE ""),
       is_directory |-> d] : k \in Kinds, d \in BOOLEAN }

\* The events the notification layer delivers while main's loop runs.
StreamEvents == { e \in Events : e.kind = "Modified" }

\* One line of the log: id is the line's identity, tag the icon/kind text.
Line(id, tag, src, dest, ts) ==
    [id |-> id, tag |-> tag, src |-> src, dest |-> dest, ts |-> ts]

\* logging.info / logging.error: the FileHandler appends one line to the
\* inode it holds open; a line written after the name was unlinked is not
\* visible in the directory.
LogTo(fs, id, tag, src, dest, ts, now) ==
    IF LOG_FILE \in DOMAIN fs
    THEN [fs EXCEPT ![LOG_FILE] =
            [@ EXCEPT !.content = Append(@, Line(id, tag, src, dest, ts)),
                      !.mtime = now]]
    ELSE fs

Range(q) == { q[i] : i \in 1..Len(q) }

LiveLog == IF LOG_FILE \in DOMAIN files THEN files[LOG_FILE].content ELSE <<>>

Entry(isfile, mtime, content) ==
    [isfile |-> isfile, mtime |-> mtime, content |-> content]

\* Remove one name from the directory (os.remove).
Unlink(fs, n) == [m \in DOMAIN fs \ {n} |-> fs[m]]

\* Create or overwrite one name (open(..., "wb") / open(..., "w")).
Put(fs, n, e) == [m \in DOMAIN fs \cup {n} |-> IF m = n THEN e ELSE fs[m]]

----------------------------------------------------------------------------
(* The directory as found at startup: the live log left by logging's       *)
(* basicConfig, archives of earlier runs around the retention boundary of  *)
(* the first sweep, and names outside the family.                          *)
FirstSweep == StartClock + COMPRESS_INTERVAL

OldArchiveA == [pre |-> "", base |-> LOG_BASENAME, ts |-> 1]
OldArchiveB == [pre |-> "", base |-> LOG_BASENAME, ts |-> 2]
OtherFile   == [pre |-> "", base |-> "syslog", ts |-> 0]
PrefixedFile == [pre |-> "old_", base |-> LOG_BASENAME, ts |-> 0]
LogNamedDir == [pre |-> "", base |-> LOG_BASENAME, ts |-> 3]

InitFiles ==
    (LOG_FILE :> Entry(TRUE, StartClock, <<>>)) @@
    (OldArchiveA :> Entry(TRUE, FirstSweep - RetentionWindow, <<>>)) @@
    (OldArchiveB :> Entry(TRUE, FirstSweep - RetentionWindow - 1, <<>>)) @@
    (OtherFile :> Entry(TRUE, 0, <<>>)) @@
    (PrefixedFile :> Entry(TRUE, 0, <<>>)) @@
    (LogNamedDir :> Entry(FALSE, 0, <<>>))

\* line 45: the candidate roots, in order.
Candidates == <<"/home", "/etc", "/root", "/usr", "/opt">>

\* Mutant of get_existing_paths: the existence test is dropped.
get_all_paths(ex) == Candidates

\* line 46: [path for path in paths if os.path.exists(path)]
get_existing_paths(ex) == SelectSeq(Candidates, LAMBDA p : p \in ex)

\* State after observer.start() (line 82), every candidate root present.
Init ==
    /\ clock = StartClock
    /\ files = InitFiles
    /\ nextId = 1
    /\ obsPc = "wait"
    /\ obsEvent = NoEvent
    /\ obsStop = FALSE
    /\ nEvents = 0
    /\ mainPc = "started"
    /\ timestamp = 0
    /\ rotState = "none"
    /\ cycles = 0
    /\ prevAttempt = -1
    /\ prevResult = "none"
    /\ namesBefore = {}
    /\ logAtBegin = <<>>
    /\ lastSweepCycle = 0
    /\ sigAt = "none"
    /\ exists = Range(Candidates)
    /\ paths = get_existing_paths(exists)
    /\ watched = Range(paths)
    /\ failedRoot = ""

----------------------------------------------------------------------------
(* Observer thread *)

\* The threads run until main() returns (line 99) or is left by an uncaught
\* exception.
ProcessAlive == mainPc \notin {"done", "crashed"}

\* The OS notification layer queues one event and the dispatcher picks it up.
Notify ==
    /\ ProcessAlive
    /\ obsPc = "wait"
    /\ ~obsStop
    /\ nEvents < MaxEvents
    /\ \E e \in StreamEvents : obsEvent' = e
    /\ obsPc' = "dispatch"
    /\ nEvents' = nEvents + 1
    /\ UNCHANGED <<clock, files, nextId, obsStop, mainPc, rotVars,
                   sigAt, startVars, lastSweepCycle>>

\* lines 27-29
on_modified(e, id) ==
    IF ~e.is_directory THEN <<Line(id, "Modified", e.src_path, "", 0)>>
    ELSE <<>>

\* lines 31-33
on_created(e, id) ==
    IF ~e.is_directory THEN <<Line(id, "Created", e.src_path, "", 0)>>
    ELSE <<>>

\* lines 35-37
on_deleted(e, id) ==
    IF ~e.is_directory THEN <<Line(id, "Deleted", e.src_path, "", 0)>>
    ELSE <<>>

\* Mutant of on_moved: the destination path is left out of the record.
on_moved_without_dest(e, id) ==
    IF ~e.is_directory THEN <<Line(id, "Moved", e.src_path, "", 0)>>
    ELSE <<>>

\* lines 39-41
on_moved(e, id) ==
    IF ~e.is_directory THEN <<Line(id, "Moved", e.src_path, e.dest_path, 0)>>
    ELSE <<>>

\* FileSystemEventHandler.dispatch: the method of the event's kind; the lines
\* it hands to logging.info.
HandlerLines(e, id) ==
    CASE e.kind = "Modified" -> on_modified(e, id)
      [] e.kind = "Created" -> on_created(e, id)
      [] e.kind = "Deleted" -> on_deleted(e, id)
      [] e.kind = "Moved" -> on_moved(e, id)

\* Any event of any kind arrives (the handler on its own).
NotifyAny ==
    /\ ProcessAlive
    /\ obsPc = "wait"
    /\ ~obsStop
    /\ nEvents < MaxHandlerEvents
    /\ \E e \in Events : obsEvent' = e
    /\ obsPc' = "dispatch"
    /\ nEvents' = nEvents + 1
    /\ UNCHANGED <<clock, files, nextId, obsStop, mainPc, rotVars, sigAt,
                   startVars, lastSweepCycle>>

Dispatch ==
    /\ ProcessAlive
    /\ obsPc = "dispatch"
    /\ LET ls == HandlerLines(obsEvent, nextId) IN
         IF ls = <<>>
         THEN UNCHANGED <<files, nextId>>
         ELSE /\ files' = LogTo(files, ls[1].id, ls[1].tag, ls[1].src,
                                ls[1].dest, 0, clock)
              /\ nextId' = nextId + 1
    /\ obsPc' = "wait"
    /\ obsEvent' = NoEvent
    /\ UNCHANGED <<clock, obsStop, nEvents, mainPc, rotVars,
                   sigAt, startVars, lastSweepCycle>>

\* The dispatcher loop sees the stop flag (should_keep_running() is false).
ObserverExit ==
    /\ ProcessAlive
    /\ obsPc = "wait"
    /\ obsStop
    /\ obsPc' = "stopped"
    /\ UNCHANGED <<clock, files, nextId, obsEvent, obsStop, nEvents, mainPc,
                   rotVars, sigAt, startVars, lastSweepCycle>>

----------------------------------------------------------------------------
(* Main thread *)

\* logging.info("File Integrity Monitoring Started!") (line 83)
LogStarted ==
    /\ mainPc = "started"
    /\ files' = LogTo(files, nextId, "Started", "", "", 0, clock)
    /\ nextId' = nextId + 1
    /\ mainPc' = "compress"
    /\ UNCHANGED <<clock, obsVars, rotVars, sigAt, startVars, lastSweepCycle>>

\* compress_log, lines 50-51: take the timestamp, build the archive name.
CompressBegin ==
    /\ mainPc = "compress"
    /\ cycles < MaxCycles
    /\ timestamp' = clock
    /\ rotState' = "begun"
    /\ cycles' = cycles + 1
    /\ prevAttempt' = (IF cycles = 0 THEN -1 ELSE timestamp)
    /\ prevResult' = rotState
    /\ namesBefore' = DOMAIN files
    /\ logAtBegin' = LiveLog
    /\ mainPc' = "open_in"
    /\ UNCHANGED <<clock, files, nextId, obsVars,
                   sigAt, startVars, lastSweepCycle>>

\* Mutant of Raise: the failure is swallowed and the cycle goes on to sleep.
RaiseContinuesCycle ==
    /\ rotState' = "failed"
    /\ mainPc' = "sleep"

\* An exception leaves compress_log and reaches `except Exception`.
Raise ==
    /\ rotState' = "failed"
    /\ mainPc' = "except"

\* line 53: open(LOG_FILE, "rb")
OpenIn ==
    /\ mainPc = "open_in"
    /\ LOG_FILE \in DOMAIN files
    /\ mainPc' = "open_out"
    /\ UNCHANGED <<clock, files, nextId, obsVars, rotVars,
                   sigAt, startVars, lastSweepCycle>>

OpenInFails ==
    /\ mainPc = "open_in"
    /\ Raise
    /\ UNCHANGED <<clock, files, nextId, obsVars, timestamp, cycles,
                   prevAttempt, prevResult, namesBefore, logAtBegin,
                   sigAt, startVars, lastSweepCycle>>

\* line 54: gzip.open(compressed_log, "wb") creates or truncates the archive.
OpenOut ==
    /\ mainPc = "open_out"
    /\ files' = Put(files, compressed_log(timestamp), Entry(TRUE, clock, <<>>))
    /\ rotState' = "created"
    /\ mainPc' = "copy"
    /\ UNCHANGED <<clock, nextId, obsVars, timestamp, cycles, prevAttempt,
                   prevResult, namesBefore, logAtBegin,
                   sigAt, startVars, lastSweepCycle>>

OpenOutFails ==
    /\ mainPc = "open_out"
    /\ Raise
    /\ UNCHANGED <<clock, files, nextId, obsVars, timestamp, cycles,
                   prevAttempt, prevResult, namesBefore, logAtBegin,
                   sigAt, startVars, lastSweepCycle>>

\* Mutant of Copy: the last line read never reaches the archive.
CopyDropsLastLine ==
    /\ mainPc = "copy"
    /\ files' = [files EXCEPT ![compressed_log(timestamp)] =
                    Entry(TRUE, clock, SubSeq(LiveLog, 1, Len(LiveLog) - 1))]
    /\ rotState' = "archived"
    /\ mainPc' = "truncate"
    /\ UNCHANGED <<clock, nextId, obsVars, timestamp, cycles, prevAttempt,
                   prevResult, namesBefore, logAtBegin, sigAt,
                   startVars, lastSweepCycle>>

\* line 55: shutil.copyfileobj reads until a read returns no data, so the
\* archive holds the live log as it is when that last read happens; the
\* with-blocks then close both files.
Copy ==
    /\ mainPc = "copy"
    /\ files' = [files EXCEPT ![compressed_log(timestamp)] =
                    Entry(TRUE, clock, LiveLog)]
    /\ rotState' = "archived"
    /\ mainPc' = "truncate"
    /\ UNCHANGED <<clock, nextId, obsVars, timestamp, cycles, prevAttempt,
                   prevResult, namesBefore, logAtBegin,
                   sigAt, startVars, lastSweepCycle>>

\* Mutant of CopyFails: the live log is cleared although the copy failed.
CopyFailsAndTruncates ==
    /\ mainPc = "copy"
    /\ \E k \in 0..Len(LiveLog) :
          files' = [files EXCEPT
                       ![compressed_log(timestamp)] =
                           Entry(TRUE, clock, SubSeq(LiveLog, 1, k)),
                       ![LOG_FILE] = Entry(TRUE, clock, <<>>)]
    /\ Raise
    /\ UNCHANGED <<clock, nextId, obsVars, timestamp, cycles, prevAttempt,
                   prevResult, namesBefore, logAtBegin, sigAt,
                   startVars, lastSweepCycle>>

\* A write error during the copy (disk full): some prefix was written.
CopyFails ==
    /\ mainPc = "copy"
    /\ \E k \in 0..Len(LiveLog) :
          files' = [files EXCEPT ![compressed_log(timestamp)] =
                       Entry(TRUE, clock, SubSeq(LiveLog, 1, k))]
    /\ Raise
    /\ UNCHANGED <<clock, nextId, obsVars, timestamp, cycles, prevAttempt,
                   prevResult, namesBefore, logAtBegin,
                   sigAt, startVars, lastSweepCycle>>

\* Mutant of Truncate: the live log is reopened without being cleared.
TruncateKeepsContent ==
    /\ mainPc = "truncate"
    /\ files' = [files EXCEPT ![LOG_FILE].mtime = clock]
    /\ rotState' = "truncated"
    /\ mainPc' = "notice"
    /\ UNCHANGED <<clock, nextId, obsVars, timestamp, cycles, prevAttempt,
                   prevResult, namesBefore, logAtBegin,
                   sigAt, startVars, lastSweepCycle>>

\* line 58: open(LOG_FILE, 'w').close()
Truncate ==
    /\ mainPc = "truncate"
    /\ files' = Put(files, LOG_FILE, Entry(TRUE, clock, <<>>))
    /\ rotState' = "truncated"
    /\ mainPc' = "notice"
    /\ UNCHANGED <<clock, nextId, obsVars, timestamp, cycles, prevAttempt,
                   prevResult, namesBefore, logAtBegin,
                   sigAt, startVars, lastSweepCycle>>

TruncateFails ==
    /\ mainPc = "truncate"
    /\ Raise
    /\ UNCHANGED <<clock, files, nextId, obsVars, timestamp, cycles,
                   prevAttempt, prevResult, namesBefore, logAtBegin,
                   sigAt, startVars, lastSweepCycle>>

\* line 60: logging.info("Log compressed and saved as: ..."); return.
Notice ==
    /\ mainPc = "notice"
    /\ files' = LogTo(files, nextId, "Compressed", "", "", timestamp, clock)
    /\ nextId' = nextId + 1
    /\ rotState' = "done"
    /\ mainPc' = "sleep"
    /\ UNCHANGED <<clock, obsVars, timestamp, cycles, prevAttempt, prevResult,
                   namesBefore, logAtBegin, sigAt, startVars, lastSweepCycle>>

\* Mutant of Sleep: the sleep returns at once.
SleepReturnsAtOnce ==
    /\ mainPc = "sleep"
    /\ \E j \in Jitter : clock' = clock + j
    /\ mainPc' = "sweep"
    /\ UNCHANGED <<files, nextId, obsVars, rotVars,
                   sigAt, startVars, lastSweepCycle>>

\* line 90: time.sleep(COMPRESS_INTERVAL) sleeps at least the interval.
Sleep ==
    /\ mainPc = "sleep"
    /\ \E j \in Jitter : clock' = clock + COMPRESS_INTERVAL + j
    /\ mainPc' = "sweep"
    /\ UNCHANGED <<files, nextId, obsVars, rotVars,
                   sigAt, startVars, lastSweepCycle>>

----------------------------------------------------------------------------
(* delete_old_logs *)

\* Mutant of TooOld: the age comparison is the wrong way round.
TooOldReversed(fs, n, now) ==
    /\ StartsWithLogName(n)
    /\ fs[n].isfile
    /\ now - fs[n].mtime < RetentionWindow

\* Mutant of TooOld: a file exactly at the window is removed too.
TooOldInclusive(fs, n, now) ==
    /\ StartsWithLogName(n)
    /\ fs[n].isfile
    /\ now - fs[n].mtime >= RetentionWindow

\* line 66, 68, 70: the three tests a directory entry must pass to be removed.
TooOld(fs, n, now) ==
    /\ StartsWithLogName(n)
    /\ fs[n].isfile
    /\ now - fs[n].mtime > RetentionWindow

\* The sequences that enumerate the set S once each.
Orders(S) ==
    { s \in [1..Cardinality(S) -> S] :
        \A i, j \in 1..Cardinality(S) : i # j => s[i] # s[j] }

\* os.listdir('/var/log') returns the names in arbitrary order.  Names that
\* fail a test when the sweep starts fail it when they are examined too (an
\* mtime only grows), so only the order of the others is enumerated.
ListDir(fs, now) == Orders({ n \in DOMAIN fs : TooOld(fs, n, now) })

\* lines 65-72 over the listing `order`; the os.remove of the failAt-th name
\* raises (failAt = 0: none does).  Result: the directory, the next line id,
\* and whether the exception left the function.
RECURSIVE SweepFrom(_, _, _, _, _, _)
SweepFrom(order, i, fs, id, now, failAt) ==
    IF i > Len(order)
    THEN [files |-> fs, nextId |-> id, raised |-> FALSE]
    ELSE LET n == order[i] IN
         IF n \in DOMAIN fs /\ TooOld(fs, n, now)
         THEN IF i = failAt
              THEN [files |-> fs, nextId |-> id, raised |-> TRUE]
              ELSE SweepFrom(order, i + 1,
                             LogTo(Unlink(fs, n), id, "DeletedOld", "", "",
                                   n.ts, now),
                             id + 1, now, failAt)
         ELSE SweepFrom(order, i + 1, fs, id, now, failAt)

\* Mutant of delete_old_logs: the loop ends after the first name listed.
delete_first_listed(order, fs, id, now, failAt) ==
    SweepFrom(SubSeq(order, 1, 1), 1, fs, id, now, failAt)

delete_old_logs(order, fs, id, now, failAt) ==
    SweepFrom(order, 1, fs, id, now, failAt)

\* line 91, returning normally: back to the top of the loop.
Sweep ==
    /\ mainPc = "sweep"
    /\ \E order \in ListDir(files, clock) :
          LET r == delete_old_logs(order, files, nextId, clock, 0) IN
            /\ files' = r.files
            /\ nextId' = r.nextId
    /\ mainPc' = "compress"
    /\ lastSweepCycle' = cycles
    /\ UNCHANGED <<clock, obsVars, rotVars, sigAt, startVars>>

\* line 91, an os.remove raising (permission denied, name vanished).
SweepFails ==
    /\ mainPc = "sweep"
    /\ \E order \in ListDir(files, clock) :
       \E failAt \in 1..Len(order) :
          LET r == delete_old_logs(order, files, nextId, clock, failAt) IN
            /\ r.raised
            /\ files' = r.files
            /\ nextId' = r.nextId
    /\ mainPc' = "except"
    /\ lastSweepCycle' = cycles
    /\ UNCHANGED <<clock, obsVars, rotVars, sigAt, startVars>>

----------------------------------------------------------------------------
(* The try statement of main's loop *)

\* Positions inside the try body (lines 88-91).
TryBody == {"compress", "open_in", "open_out", "copy", "truncate", "notice",
            "sleep", "sweep"}

\* Mutant of HandleError: the handler lets the exception leave main().
HandleErrorReraises ==
    /\ mainPc = "except"
    /\ mainPc' = "crashed"
    /\ UNCHANGED <<clock, files, nextId, obsVars, rotVars,
                   sigAt, startVars, lastSweepCycle>>

\* lines 96-97: logging.error(...), then the loop runs compress_log again.
HandleError ==
    /\ mainPc = "except"
    /\ files' = LogTo(files, nextId, "Error", "", "", 0, clock)
    /\ nextId' = nextId + 1
    /\ \E j \in Jitter : clock' = clock + j
    /\ mainPc' = "compress"
    /\ UNCHANGED <<obsVars, rotVars, sigAt, startVars, lastSweepCycle>>

\* KeyboardInterrupt raised in the try body: caught at line 92.
SignalInTry ==
    /\ sigAt = "none"
    /\ mainPc \in TryBody
    /\ sigAt' = mainPc
    /\ mainPc' = "kb_stop"
    /\ UNCHANGED <<clock, files, nextId, obsVars, rotVars, startVars,
                   lastSweepCycle>>

\* KeyboardInterrupt raised at line 83 or inside the `except Exception`
\* handler: no clause of the try statement covers it, main() is left with
\* the exception and the interpreter exits (the observer is a daemon thread).
SignalOutsideTry ==
    /\ sigAt = "none"
    /\ mainPc \in {"started", "except"}
    /\ sigAt' = mainPc
    /\ mainPc' = "crashed"
    /\ UNCHANGED <<clock, files, nextId, obsVars, rotVars, startVars,
                   lastSweepCycle>>

\* line 93: observer.stop()
KbStop ==
    /\ mainPc = "kb_stop"
    /\ obsStop' = TRUE
    /\ mainPc' = "kb_log"
    /\ UNCHANGED <<clock, files, nextId, obsPc, obsEvent, nEvents, rotVars,
                   sigAt, startVars, lastSweepCycle>>

\* lines 94-95: logging.info("File Integrity Monitoring Stopped!"); break
KbLog ==
    /\ mainPc = "kb_log"
    /\ files' = LogTo(files, nextId, "Stopped", "", "", 0, clock)
    /\ nextId' = nextId + 1
    /\ mainPc' = "join"
    /\ UNCHANGED <<clock, obsVars, rotVars, sigAt, startVars, lastSweepCycle>>

\* line 99: observer.join() returns once the observer thread has ended.
Join ==
    /\ mainPc = "join"
    /\ obsPc = "stopped"
    /\ mainPc' = "done"
    /\ UNCHANGED <<clock, files, nextId, obsVars, rotVars,
                   sigAt, startVars, lastSweepCycle>>

----------------------------------------------------------------------------
Next ==
    \/ Notify
    \/ Dispatch
    \/ ObserverExit
    \/ LogStarted
    \/ CompressBegin
    \/ OpenIn
    \/ OpenInFails
    \/ OpenOut
    \/ OpenOutFails
    \/ Copy
    \/ CopyFails
    \/ Truncate
    \/ TruncateFails
    \/ Notice
    \/ Sleep
    \/ Sweep
    \/ SweepFails
    \/ HandleError
    \/ SignalInTry
    \/ SignalOutsideTry
    \/ KbStop
    \/ KbLog
    \/ Join

Spec == Init /\ [][Next]_vars

\* The observer thread alone, fed every kind of event.
NextHandler ==
    \/ NotifyAny
    \/ Dispatch

HandlerSpec == Init /\ [][NextHandler]_vars

----------------------------------------------------------------------------------------------------------------------------------------
(* Startup: main, lines 75-82 *)

\* State when main() is entered, for every combination of present roots.
InitStartup ==
    /\ clock = StartClock
    /\ files = InitFiles
    /\ nextId = 1
    /\ obsPc = "wait"
    /\ obsEvent = NoEvent
    /\ obsStop = FALSE
    /\ nEvents = 0
    /\ mainPc = "resolve"
    /\ timestamp = 0
    /\ rotState = "none"
    /\ cycles = 0
    /\ prevAttempt = -1
    /\ prevResult = "none"
    /\ namesBefore = {}
    /\ logAtBegin = <<>>
    /\ lastSweepCycle = 0
    /\ sigAt = "none"
    /\ exists \in SUBSET Range(Candidates)
    /\ paths = <<>>
    /\ watched = {}
    /\ failedRoot = ""

startFrame == <<clock, files, nextId, obsVars, rotVars, lastSweepCycle, sigAt>>

\* line 79: get_existing_paths()
Resolve ==
    /\ mainPc = "resolve"
    /\ paths' = get_existing_paths(exists)
    /\ mainPc' = "schedule"
    /\ UNCHANGED <<startFrame, exists, watched, failedRoot>>

\* The root the for loop of line 79 handles next.
NextRoot == paths[Cardinality(watched) + 1]

\* line 80: observer.schedule(event_handler, path, recursive=True)
Schedule ==
    /\ mainPc = "schedule"
    /\ Cardinality(watched) < Len(paths)
    /\ watched' = watched \cup {NextRoot}
    /\ UNCHANGED <<startFrame, mainPc, exists, paths, failedRoot>>

\* line 80 raising for this root (permission denied, watch limit): lines
\* 79-82 are under no try statement, the exception leaves main().
ScheduleFails ==
    /\ mainPc = "schedule"
    /\ Cardinality(watched) < Len(paths)
    /\ failedRoot' = NextRoot
    /\ mainPc' = "crashed"
    /\ UNCHANGED <<startFrame, exists, paths, watched>>

\* line 82: observer.start() starts one emitter per scheduled root.
Start ==
    /\ mainPc = "schedule"
    /\ Cardinality(watched) = Len(paths)
    /\ mainPc' = "started"
    /\ UNCHANGED <<startFrame, startVars>>

\* line 82 raising because the emitter of one root cannot start.
StartFails ==
    /\ mainPc = "schedule"
    /\ Cardinality(watched) = Len(paths)
    /\ \E p \in watched : failedRoot' = p
    /\ mainPc' = "crashed"
    /\ UNCHANGED <<startFrame, exists, paths, watched>>

NextStartup ==
    \/ Resolve
    \/ Schedule
    \/ ScheduleFails
    \/ Start
    \/ StartFails

StartupSpec == InitStartup /\ [][NextStartup]_vars

----------------
(* Properties *)

\* The archive the latest compress_log call writes.
CurrentArchive == compressed_log(timestamp)

ArchiveLines ==
    IF CurrentArchive \in DOMAIN files THEN Range(files[CurrentArchive].content)
    ELSE {}

\* main has left its loop: by break (then join) or by an uncaught exception.
Exited == mainPc \in {"done", "crashed"}

\* C1: no record is lost across a rotation: when the truncation is about to
\* run, every line of the live log is in the snapshot the archive holds, i.e.
\* no append has taken effect between the end of the read and the truncation.
C1_NoAppendBetweenSnapshotAndTruncate ==
    mainPc = "truncate" => Range(LiveLog) \subseteq ArchiveLines

\* C2: no record is duplicated: whenever no compress_log call is in progress,
\* no line is held by two names of the directory (two archives, or an archive
\* and the live log).
C2_NoLineInTwoPlaces ==
    mainPc \in {"compress", "except", "sleep", "sweep"} =>
        \A m, n \in DOMAIN files :
            m # n => Range(files[m].content) \cap Range(files[n].content) = {}

\* C3: a stop signal delivered while main's loop runs (in the try body or in
\* the error handler) ends with the observer stopped and the shutdown record
\* in the live log.
C3_StopSignalShutsDownCleanly ==
    (sigAt \in TryBody \cup {"except"} /\ Exited) =>
        /\ mainPc = "done"
        /\ obsStop
        /\ \E i \in 1..Len(LiveLog) : LiveLog[i].tag = "Stopped"

\* C4: shutdown never aborts a rotation midway: main never exits with the
\* archive of the current rotation written and the live log not truncated.
C4_NoExitMidRotation ==
    Exited => rotState # "archived"

\* C5 as stated: every compress_log call, the first included, starts at least
\* COMPRESS_INTERVAL after the previous call (after startup for the first).
C5_SleepBeforeEveryRotation ==
    mainPc = "open_in" =>
        timestamp - (IF cycles = 1 THEN StartClock ELSE prevAttempt)
            >= COMPRESS_INTERVAL

\* C5 amended: the cycle order is rotate, sleep, sweep.  The first
\* compress_log call runs at startup without a sleep, a call that follows a
\* failed compress_log runs without a sleep, and every other call starts at
\* least COMPRESS_INTERVAL after the previous one; the sweep runs only after
\* a full sleep that follows a rotation that returned.
C5_SleepBetweenRotations ==
    /\ mainPc = "open_in" =>
          \/ cycles = 1
          \/ prevResult = "failed"
          \/ timestamp - prevAttempt >= COMPRESS_INTERVAL
    /\ mainPc = "sweep" =>
          /\ rotState = "done"
          /\ clock - timestamp >= COMPRESS_INTERVAL

C5_Witness ==
    /\ mainPc = "open_in"
    /\ cycles = 2
    /\ prevResult = "done"
    /\ timestamp - prevAttempt >= COMPRESS_INTERVAL

\* C6: after a failed rotation the next attempt starts only after a further
\* full period: a failed attempt is never retried at once.
C6_NoImmediateRetry ==
    (mainPc = "open_in" /\ prevResult = "failed") =>
        timestamp - prevAttempt >= COMPRESS_INTERVAL

\* C7: no error raised in the maintenance cycle terminates the process: main
\* leaves its loop only on the stop signal, and the step that handles an error
\* appends an error record, returns to the top of the loop and leaves the
\* observer running.
C7_ErrorsNeverTerminate ==
    /\ [](mainPc \in {"crashed", "kb_stop", "kb_log", "join", "done"}
            => sigAt # "none")
    /\ [][(mainPc = "except" /\ mainPc' # "except" /\ sigAt' = sigAt) =>
            /\ LiveLog' = Append(LiveLog, Line(nextId, "Error", "", "", 0))
            /\ mainPc' = "compress"
            /\ obsPc' = obsPc
            /\ obsPc' # "stopped"
            /\ ~obsStop']_vars

\* An error was handled, the loop is running again and the observer has
\* appended an event record after the error record.
C7_Witness ==
    /\ mainPc \in TryBody
    /\ \E i, j \in 1..Len(LiveLog) :
          /\ i < j
          /\ LiveLog[i].tag = "Error"
          /\ LiveLog[j].tag \in Kinds

\* C8 as stated: after a successful rotation the live log is empty and exactly
\* one new archive, named with the rotation timestamp, exists.
C8_LiveLogEmptyAfterRotation ==
    mainPc = "sleep" =>
        /\ LiveLog = <<>>
        /\ DOMAIN files \ namesBefore = {CurrentArchive}

\* C8 amended: when compress_log has returned, the live log holds the rotation
\* notice and possibly records appended since the truncation, but none of the
\* lines that went to the archive; the archive named with the rotation
\* timestamp exists, and the rotation removed no name and added no other name.
C8_LiveLogFreshAfterRotation ==
    mainPc = "sleep" =>
        /\ CurrentArchive \in DOMAIN files
        /\ files[CurrentArchive].isfile
        /\ Range(LiveLog) \cap ArchiveLines = {}
        /\ \E i \in 1..Len(LiveLog) :
              LiveLog[i].tag = "Compressed" /\ LiveLog[i].ts = timestamp
        /\ namesBefore \subseteq DOMAIN files
        /\ DOMAIN files \ namesBefore \subseteq {CurrentArchive}

\* A rotation returned: the archive holds lines, the live log holds the
\* notice and an event record appended after the truncation.
C8_Witness ==
    /\ mainPc = "sleep"
    /\ ArchiveLines # {}
    /\ Len(LiveLog) >= 2

\* C9: an archive is immutable once created: no rotation opens for writing an
\* archive name that already exists.
C9_ArchiveNameIsNew ==
    mainPc = "open_out" => CurrentArchive \notin DOMAIN files

\* C10: one retention sweep removes no name but a regular file of the log's
\* naming family whose mtime is strictly older than now minus the retention
\* window, and a sweep that returns has removed every such file.
C10_SweepDeletesExactlyTheOld ==
    [][(mainPc = "sweep" /\ mainPc' \in {"compress", "except"}) =>
        LET old == { n \in DOMAIN files :
                        /\ n.pre = "" /\ n.base = LOG_BASENAME
                        /\ files[n].isfile
                        /\ files[n].mtime < clock - RetentionWindow }
        IN /\ DOMAIN files' \subseteq DOMAIN files
           /\ DOMAIN files \ DOMAIN files' \subseteq old
           /\ mainPc' = "compress" => DOMAIN files' = DOMAIN files \ old]_vars

\* After the first sweep: the archive strictly older than the window is
\* gone, the one exactly at the window and the names outside the family stay.
C10_Witness ==
    /\ mainPc = "compress"
    /\ clock = FirstSweep
    /\ OldArchiveB \notin DOMAIN files
    /\ {OldArchiveA, OtherFile, PrefixedFile, LogNamedDir, LOG_FILE}
          \subseteq DOMAIN files

\* A step of the main thread that is one whole run of delete_old_logs.
SweepStep == mainPc = "sweep" /\ mainPc' \in {"compress", "except"}

\* C11: a failing os.remove does not abort the sweep: with one remove failing,
\* every other file that passes the tests is removed in the same run, so at
\* most one of them is left.
C11_SweepContinuesAfterFailure ==
    [][SweepStep =>
        Cardinality({ n \in DOMAIN files' \cap DOMAIN files :
                         TooOld(files, n, clock) }) <= 1]_vars

\* C12: the sweep runs once per cycle and only in a cycle whose rotation
\* returned: it starts after that rotation with no sweep run yet in the cycle,
\* a cycle whose compress_log failed has no sweep, and when the next cycle
\* begins the sweep has run in the previous cycle exactly if its rotation
\* returned.
C12_SweepOncePerSuccessfulCycle ==
    /\ lastSweepCycle <= cycles
    /\ mainPc = "sweep" => (rotState = "done" /\ lastSweepCycle < cycles)
    /\ (cycles > 0 /\ lastSweepCycle = cycles) => rotState = "done"
    /\ rotState = "failed" => lastSweepCycle < cycles
    /\ mainPc = "open_in" =>
          (prevResult = "done" <=> (cycles > 1 /\ lastSweepCycle = cycles - 1))

\* The second cycle begins after a first cycle that rotated and swept.
C12_Witness ==
    /\ mainPc = "open_in"
    /\ cycles = 2
    /\ lastSweepCycle = 1
    /\ OldArchiveB \notin DOMAIN files

\* C13: an error on one watch root while its subscription is established is
\* skipped: main does not abort, and once the watchers are started every
\* other resolved root is watched.
C13_RootFailureIsSkipped ==
    failedRoot # "" =>
        /\ mainPc # "crashed"
        /\ mainPc = "started" => watched = Range(paths) \ {failedRoot}

\* Place of a candidate in the candidate list.
CandidateIndex(p) == CHOOSE k \in 1..Len(Candidates) : Candidates[k] = p

\* C16: get_existing_paths returns exactly the candidates that exist, in the
\* order of the candidate list, and a missing candidate raises nothing: main
\* goes on to schedule the roots.
C16_ExistingPathsInOrder ==
    mainPc # "resolve" =>
        /\ Range(paths) = { p \in Range(Candidates) : p \in exists }
        /\ \A i, j \in 1..Len(paths) :
              i < j => CandidateIndex(paths[i]) < CandidateIndex(paths[j])
        /\ mainPc = "crashed" => failedRoot # ""

\* Two of the five candidates exist, the first and others are missing.
C16_Witness ==
    /\ mainPc = "schedule"
    /\ exists = {"/etc", "/opt"}
    /\ paths = <<"/etc", "/opt">>

\* C14: the handler appends nothing for an event whose directory flag is
\* set, and for any other event exactly one record carrying the tag of the
\* event's kind and its source path, and for Moved the destination path too.
C14_OneRecordPerFileEvent ==
    [][(obsPc = "dispatch" /\ obsPc' = "wait") =>
        IF obsEvent.is_directory
        THEN LiveLog' = LiveLog
        ELSE /\ Len(LiveLog') = Len(LiveLog) + 1
             /\ SubSeq(LiveLog', 1, Len(LiveLog)) = LiveLog
             /\ LET r == LiveLog'[Len(LiveLog')] IN
                  /\ r.tag = obsEvent.kind
                  /\ r.src = obsEvent.src_path
                  /\ obsEvent.kind = "Moved" => r.dest = obsEvent.dest_path]_vars

\* A directory event left no record and a Moved event left one with both
\* paths.
C14_Witness ==
    /\ obsPc = "wait"
    /\ nEvents = 2
    /\ Len(LiveLog) = 1
    /\ LiveLog[1].tag = "Moved"
    /\ LiveLog[1].src = "/etc/a"
    /\ LiveLog[1].dest = "/etc/b"

IsPrefix(a, b) == Len(a) <= Len(b) /\ SubSeq(b, 1, Len(a)) = a

\* What reading the current archive back yields.
ArchiveContent ==
    IF CurrentArchive \in DOMAIN files THEN files[CurrentArchive].content
    ELSE <<>>

C18_TruncateOnlyAfterCopy ==
    /\ rotState \in {"begun", "created", "archived", "failed"} =>
          IsPrefix(logAtBegin, LiveLog)
    /\ rotState \in {"truncated", "done"} =>
          IsPrefix(logAtBegin, ArchiveContent)

\* The copy failed midway: the archive holds fewer records than the live log,
\* which is as it was when the call began.
C18_Witness ==
    /\ mainPc = "except"
    /\ rotState = "failed"
    /\ Len(logAtBegin) >= 1
    /\ CurrentArchive \in DOMAIN files
    /\ Len(ArchiveContent) < Len(logAtBegin)
    /\ LiveLog = logAtBegin

\* C17: the sweep is idempotent: right after a sweep that returned, a second
\* run at the same clock over the same directory removes no name and writes
\* no line, whichever name it meets first.
C17_SecondSweepDeletesNothing ==
    [][(mainPc = "sweep" /\ mainPc' = "compress") =>
        \A n \in DOMAIN files' :
            LET r == delete_old_logs(<<n>>, files', nextId', clock', 0) IN
              /\ r.files = files'
              /\ r.nextId = nextId'
              /\ ~r.raised]_vars

\* A sweep returned after removing both old archives.
C17_Witness ==
    /\ mainPc = "compress"
    /\ cycles >= 1
    /\ lastSweepCycle = cycles
    /\ rotState = "done"
    /\ \A i \in 1..Len(LiveLog) : LiveLog[i].tag # "Error"
    /\ Cardinality({ i \in 1..Len(LiveLog) : LiveLog[i].tag = "DeletedOld" }) = 2
    /\ DOMAIN files \cap {OldArchiveA, OldArchiveB} = {}

\* C19: the sweep never removes the live log: the live log is always a name
\* of the directory, and whenever delete_old_logs is about to run from main's
\* loop its mtime is within the retention window.
C19_SweepKeepsLiveLog ==
    /\ LOG_FILE \in DOMAIN files
    /\ mainPc = "sweep" =>
          clock - files[LOG_FILE].mtime <= RetentionWindow

\* A sweep of the second cycle has returned and the live log is there.
C19_Witness ==
    /\ mainPc = "compress"
    /\ cycles = 2
    /\ lastSweepCycle = 2
    /\ LOG_FILE \in DOMAIN files
    /\ OldArchiveB \notin DOMAIN files

\* C20: the shutdown record is the last record of the run: no line follows
\* the 'Monitoring Stopped' line in the live log.
C20_ShutdownRecordIsLast ==
    \A i \in 1..Len(LiveLog) :
        LiveLog[i].tag = "Stopped" => i = Len(LiveLog)

====
